---- MODULE Spec2Model ----
(***************************************************************************)
(* A model of h1.go: the HackerOne API client (makeRequest), the paginated *)
(* collector (GetAllProgramsPaginated, extractEndpoint), the single-page   *)
(* operations and main's command dispatch.                                 *)
(*                                                                         *)
(* Strings are TLA+ strings; the Go string functions the program uses      *)
(* (strings.HasPrefix, strings.TrimPrefix, strings.ToLower, +) are         *)
(* computed on them character by character.  The network is the only       *)
(* input besides the environment and the command line: every answer of     *)
(* the server is a Response record.                                        *)
(***************************************************************************)
EXTENDS Integers, Sequences, FiniteSets, TLC

VARIABLES
    env,          \* the two credential environment variables
    args,         \* os.Args (args[1] is the program name, Go's os.Args[0])
    pc,           \* where the process is
    client,       \* the *H1Client main constructed, NoClient before
    allPrograms,  \* GetAllProgramsPaginated: accumulated items
    nextURL,      \* GetAllProgramsPaginated: the cursor
    page,         \* GetAllProgramsPaginated: the page counter
    ret,          \* what the last API operation returned: [value, err]
    script,       \* the answers the server gives, in request order
    wire,         \* history: the URLs of the HTTP requests sent, in order
    log,          \* history: every makeRequest call and every time.Sleep
    pages,        \* history: every page GetAllProgramsPaginated parsed
    stdout,       \* what was printed with fmt.Print*
    stderr,       \* what log.Fatal printed
    file          \* the file SaveProgramsToFile wrote, NoFile before

vars == <<env, args, pc, client, allPrograms, nextURL, page, ret, script,
          wire, log, pages, stdout, stderr, file>>

(***************************************************************************)
(* Bounds.                                                                 *)
(***************************************************************************)
\* The longest chain of answers a server gives in one run.
MaxPages == 3

(***************************************************************************)
(* Go string functions.                                                    *)
(***************************************************************************)
\* strings.HasPrefix(s, prefix)
HasPrefix(s, prefix) ==
    /\ Len(s) >= Len(prefix)
    /\ SubSeq(s, 1, Len(prefix)) = prefix

\* strings.TrimPrefix(s, prefix)
TrimPrefix(s, prefix) ==
    IF HasPrefix(s, prefix) THEN SubSeq(s, Len(prefix) + 1, Len(s)) ELSE s

UpperCase == "ABCDEFGHIJKLMNOPQRSTUVWXYZ"
LowerCase == "abcdefghijklmnopqrstuvwxyz"

\* unicode.ToLower on one (ASCII) character
LowerChar(ch) ==
    IF \E i \in 1..Len(UpperCase) : SubSeq(UpperCase, i, i) = ch
    THEN LET i == CHOOSE j \in 1..Len(UpperCase) : SubSeq(UpperCase, j, j) = ch
         IN  SubSeq(LowerCase, i, i)
    ELSE ch

\* strings.ToLower(s)
RECURSIVE ToLower(_)
ToLower(s) ==
    IF Len(s) = 0 THEN s
    ELSE LowerChar(SubSeq(s, 1, 1)) \o ToLower(SubSeq(s, 2, Len(s)))

HexDigits == "0123456789abcdefABCDEF"

IsHex(ch) == \E i \in 1..Len(HexDigits) : SubSeq(HexDigits, i, i) = ch

\* http.NewRequest(method, url, nil) returns an error: the method is not a
\* token or url.Parse rejects the URL.  Of url.Parse's rules the one the
\* program's inputs can break is modelled: a "%" in the path (before the
\* first "?") must be followed by two hex digits (invalid URL escape).
NewRequestFails(method, url) ==
    \/ method = ""
    \/ \E i \in 1..Len(url) :
           /\ SubSeq(url, i, i) = "%"
           /\ ~ ( /\ i + 2 <= Len(url)
                  /\ IsHex(SubSeq(url, i + 1, i + 1))
                  /\ IsHex(SubSeq(url, i + 2, i + 2)) )
           /\ \A j \in 1..(i - 1) : SubSeq(url, j, j) # "?"

(***************************************************************************)
(* Values.                                                                 *)
(***************************************************************************)
NoErr    == [kind |-> "nil"]
NilBytes == [nil |-> TRUE]
NoClient == [nil |-> TRUE]
NoFile   == [nil |-> TRUE]
NoLinks  == << >>                      \* a nil map[string]string

StatusOK == 200                        \* http.StatusOK

\* NewH1Client(username, token)
NewH1Client(username, token) ==
    [ Username       |-> username,
      APIToken       |-> token,
      BaseURL        |-> "https://api.hackerone.com/v1/hackers",
      RateLimitDelay |-> 100 ]         \* 100 * time.Millisecond

\* The base URL as the server writes it in its links.
ServerBase == "https://api.hackerone.com/v1/hackers"

(***************************************************************************)
(* The server's answers.  An answer is a transport failure, or a status    *)
(* line with a body that can or cannot be read in full; a body is JSON of  *)
(* the envelope {data, links} or something json.Unmarshal rejects.         *)
(***************************************************************************)
PageData == { <<"p1">>, <<"p2", "p1">> }

NextLinks ==
    { "",
      ServerBase,
      ServerBase \o "/programs?page=2",
      "/programs?page=2",
      ServerBase \o "/programs/%zz" }

LinkMaps ==
    {NoLinks} \cup {[self |-> ServerBase \o "/programs"]}
              \cup {[next |-> l] : l \in NextLinks}

\* {"data": [...], "links": {...}}
Envelope(data, links) == [shape |-> "list", data |-> data, links |-> links]
\* {"data": {...}}: one record, as GET /programs/{handle} answers
Single(item) == [shape |-> "object", data |-> <<item>>, links |-> NoLinks]
\* bytes that are not JSON of either shape
Garbage == [shape |-> "garbage", data |-> << >>, links |-> NoLinks]

Answer(transportOK, status, readOK, body) ==
    [transportOK |-> transportOK, status |-> status, readOK |-> readOK,
     body |-> body]

PageAnswer(data, links) == Answer(TRUE, StatusOK, TRUE, Envelope(data, links))

Failures ==
    { Answer(FALSE, 0, FALSE, Garbage),        \* connection refused, DNS, ...
      Answer(TRUE, 404, TRUE, Garbage),        \* a status other than 200
      Answer(TRUE, StatusOK, FALSE, Garbage),  \* the body cannot be read
      Answer(TRUE, StatusOK, TRUE, Garbage) }  \* 200 with a body that is not the envelope

Responses ==
    Failures \cup {Answer(TRUE, StatusOK, TRUE, Single("p1"))}
             \cup {PageAnswer(<< >>, NoLinks)}
             \cup {PageAnswer(d, l) : d \in PageData, l \in LinkMaps}

(***************************************************************************)
(* The API client.                                                         *)
(***************************************************************************)
\* makeRequest without the check of the status code.
makeRequest_AnyStatus(c, method, endpoint, resp) ==
    LET url == c.BaseURL \o endpoint
    IN  IF NewRequestFails(method, url)
        THEN [body |-> NilBytes, err |-> [kind |-> "newrequest"], sent |-> << >>]
        ELSE IF ~resp.transportOK
        THEN [body |-> NilBytes, err |-> [kind |-> "transport"], sent |-> <<url>>]
        ELSE IF ~resp.readOK
        THEN [body |-> NilBytes, err |-> [kind |-> "read"], sent |-> <<url>>]
        ELSE [body |-> resp.body, err |-> NoErr, sent |-> <<url>>]

\* makeRequest(method, endpoint) on client c, when the network answers resp
\* to the request it sends.  sent: the URLs that went over the wire.
makeRequest(c, method, endpoint, resp) ==
    LET url == c.BaseURL \o endpoint
    IN  IF NewRequestFails(method, url)
        THEN [body |-> NilBytes, err |-> [kind |-> "newrequest"], sent |-> << >>]
        ELSE IF ~resp.transportOK
        THEN [body |-> NilBytes, err |-> [kind |-> "transport"], sent |-> <<url>>]
        ELSE IF resp.status # StatusOK
        THEN [body |-> NilBytes,
              err  |-> [kind |-> "status", status |-> resp.status],
              sent |-> <<url>>]
        ELSE IF ~resp.readOK
        THEN [body |-> NilBytes, err |-> [kind |-> "read"], sent |-> <<url>>]
        ELSE [body |-> resp.body, err |-> NoErr, sent |-> <<url>>]

\* json.Unmarshal(body, &response) into a response struct whose Data is a
\* slice (ProgramsResponse, StructuredScopesResponse, WeaknessesResponse)
Unmarshal(body) ==
    IF body.shape = "list"
    THEN [err |-> NoErr, response |-> [Data |-> body.data, Links |-> body.links]]
    ELSE [err |-> [kind |-> "json"], response |-> [Data |-> << >>, Links |-> NoLinks]]

\* json.Unmarshal(body, &response) into struct { Data Program }
UnmarshalOne(body) ==
    IF body.shape = "object"
    THEN [err |-> NoErr, response |-> [Data |-> body.data]]
    ELSE [err |-> [kind |-> "json"], response |-> [Data |-> << >>]]

\* extractEndpoint without the fallback: the length of the base URL is cut
\* off whatever the link starts with.
extractEndpoint_AlwaysStrip(fullURL) ==
    LET baseURL == "https://api.hackerone.com/v1/hackers"
    IN  SubSeq(fullURL, Len(baseURL) + 1, Len(fullURL))

\* extractEndpoint(fullURL)
extractEndpoint(fullURL) ==
    LET baseURL == "https://api.hackerone.com/v1/hackers"
    IN  IF HasPrefix(fullURL, baseURL)
        THEN TrimPrefix(fullURL, baseURL)
        ELSE fullURL

(***************************************************************************)
(* History.                                                                *)
(***************************************************************************)
\* answer: what the network answered, if the call sent a request
CallEvent(endpoint, resp, res) ==
    [ev |-> "makeRequest", endpoint |-> endpoint,
     answer |-> IF Len(res.sent) = 0 THEN << >> ELSE <<resp>>,
     result |-> res]

SleepEvent(d) == [ev |-> "sleep", d |-> d]

IsCall(e)  == e.ev = "makeRequest"
IsSleep(e) == e.ev = "sleep"

Calls  == SelectSeq(log, IsCall)
Sleeps == SelectSeq(log, IsSleep)

(***************************************************************************)
(* The server.  script holds the answers the server has committed to, in   *)
(* request order: the i-th request sent is answered by script[i].  Beyond  *)
(* the committed answers the server answers as it likes, and the answer is *)
(* added to script when the request is sent.                               *)
(***************************************************************************)
Upcoming ==
    IF Len(wire) < Len(script) THEN {script[Len(wire) + 1]}
    ELSE IF Len(wire) < MaxPages THEN Responses
    ELSE {}

Answered(resp, sent) ==
    IF Len(wire) + Len(sent) > Len(script) THEN Append(script, resp) ELSE script

(***************************************************************************)
(* GetAllProgramsPaginated: one action per outcome of a loop iteration.    *)
(* resp is the answer the network gives if the iteration's request is sent.*)
(***************************************************************************)
\* fmt.Errorf("error fetching page %d: %v", page, err)
ErrFetching(p, err) == [kind |-> "fetching page", page |-> p, cause |-> err]

\* fmt.Errorf("error parsing page %d: %v", page, err)
ErrParsing(p, err) == [kind |-> "parsing page", page |-> p, cause |-> err]

\* return allPrograms, err: the pages accumulated so far are handed back.
ReturnError_KeepPartial(programs, err) == [value |-> programs, err |-> err]

\* return nil, err
ReturnError(programs, err) == [value |-> << >>, err |-> err]

\* nextLink, exists := response.Links["next"]; exists && nextLink != ""
HasNext(response) ==
    /\ "next" \in DOMAIN response.Links
    /\ response.Links["next"] # ""

\* the loop condition: for nextURL != ""
LoopContinues(url) == url # ""

PageFetchFails ==
    /\ pc = "GetAllProgramsPaginated"
    /\ \E resp \in Upcoming :
       \E res \in {makeRequest(client, "GET", nextURL, resp)} :
            /\ res.err # NoErr
            /\ stdout' = Append(stdout, <<"Fetching page", page>>)
            /\ wire' = wire \o res.sent
            /\ script' = Answered(resp, res.sent)
            /\ log' = Append(log, CallEvent(nextURL, resp, res))
            /\ ret' = ReturnError(allPrograms, ErrFetching(page, res.err))
            /\ pc' = "returned"
            /\ UNCHANGED <<env, args, client, allPrograms, nextURL, page, pages,
                           stderr, file>>

PageParseFails ==
    /\ pc = "GetAllProgramsPaginated"
    /\ \E resp \in Upcoming :
       \E res \in {makeRequest(client, "GET", nextURL, resp)} :
        LET dec == Unmarshal(res.body)
        IN  /\ res.err = NoErr
            /\ dec.err # NoErr
            /\ stdout' = Append(stdout, <<"Fetching page", page>>)
            /\ wire' = wire \o res.sent
            /\ script' = Answered(resp, res.sent)
            /\ log' = Append(log, CallEvent(nextURL, resp, res))
            /\ ret' = ReturnError(allPrograms, ErrParsing(page, dec.err))
            /\ pc' = "returned"
            /\ UNCHANGED <<env, args, client, allPrograms, nextURL, page, pages,
                           stderr, file>>

PageWithNext ==
    /\ pc = "GetAllProgramsPaginated"
    /\ \E resp \in Upcoming :
       \E res \in {makeRequest(client, "GET", nextURL, resp)} :
        LET dec == Unmarshal(res.body)
            all == allPrograms \o dec.response.Data
            url == extractEndpoint(dec.response.Links["next"])
        IN  /\ res.err = NoErr
            /\ dec.err = NoErr
            /\ HasNext(dec.response)
            /\ allPrograms' = all
            /\ stdout' = stdout \o << <<"Fetching page", page>>,
                                      <<"Page fetched", page, Len(dec.response.Data), Len(all)>> >>
            /\ nextURL' = url
            /\ page' = page + 1
            /\ wire' = wire \o res.sent
            /\ script' = Answered(resp, res.sent)
            /\ log' = log \o << CallEvent(nextURL, resp, res),
                                SleepEvent(client.RateLimitDelay) >>
            /\ pages' = Append(pages, dec.response)
            /\ IF LoopContinues(url)
               THEN pc' = "GetAllProgramsPaginated" /\ UNCHANGED ret
               ELSE pc' = "returned" /\ ret' = [value |-> all, err |-> NoErr]
            /\ UNCHANGED <<env, args, client, stderr, file>>

PageLast ==
    /\ pc = "GetAllProgramsPaginated"
    /\ \E resp \in Upcoming :
       \E res \in {makeRequest(client, "GET", nextURL, resp)} :
        LET dec == Unmarshal(res.body)
            all == allPrograms \o dec.response.Data
        IN  /\ res.err = NoErr
            /\ dec.err = NoErr
            /\ ~HasNext(dec.response)
            /\ allPrograms' = all
            /\ stdout' = stdout \o << <<"Fetching page", page>>,
                                      <<"Page fetched", page, Len(dec.response.Data), Len(all)>> >>
            /\ nextURL' = ""
            /\ wire' = wire \o res.sent
            /\ script' = Answered(resp, res.sent)
            /\ log' = Append(log, CallEvent(nextURL, resp, res))
            /\ pages' = Append(pages, dec.response)
            /\ pc' = "returned"
            /\ ret' = [value |-> all, err |-> NoErr]
            /\ UNCHANGED <<env, args, client, page, stderr, file>>

(***************************************************************************)
(* The collector on its own (called as main calls it for programs-all),    *)
(* against a server that has committed to its answers beforehand.          *)
(***************************************************************************)
Scripts == UNION { [1..n -> Responses] : n \in 1..MaxPages }

\* Links around the base URL: every prefix of it, alone and followed by a
\* path or a letter.
LinkInputs ==
    { SubSeq(ServerBase, 1, n) \o sfx :
          n \in 0..Len(ServerBase), sfx \in {"", "/programs?page=2", "s"} }

\* A first page carrying such a link, then a last page.
LinkScripts ==
    { << PageAnswer(<<"p1">>, [next |-> l]), PageAnswer(<<"p2">>, NoLinks) >> :
          l \in LinkInputs }

NoRet == [value |-> << >>, err |-> NoErr]

CollectorInit ==
    /\ env = [HACKERONE_USERNAME |-> "user", HACKERONE_TOKEN |-> "token"]
    /\ args = <<"h1module", "programs-all">>
    /\ client = NewH1Client("user", "token")
    /\ pc = "GetAllProgramsPaginated"
    /\ allPrograms = << >>
    /\ nextURL = "/programs"
    /\ page = 1
    /\ ret = NoRet
    /\ script \in Scripts \cup LinkScripts
    /\ wire = << >>
    /\ log = << >>
    /\ pages = << >>
    /\ stdout = << >>
    /\ stderr = << >>
    /\ file = NoFile

CollectorNext ==
    \/ PageFetchFails
    \/ PageParseFails
    \/ PageWithNext
    \/ PageLast

SpecCollector == CollectorInit /\ [][CollectorNext]_vars

(***************************************************************************)
(* Properties of the collector (checked under SpecCollector).              *)
(***************************************************************************)
\* The server answered a with a page: 200, a readable body, the envelope.
IsPageAnswer(a) ==
    /\ a.transportOK
    /\ a.status = 200
    /\ a.readOK
    /\ a.body.shape = "list"

\* The "next" link of a links mapping, "" when there is none.
NextLink(links) == IF "next" \in DOMAIN links THEN links["next"] ELSE ""

\* l starts with the base URL.
StartsWithBase(l) == \E n \in 0..Len(l) : SubSeq(l, 1, n) = ServerBase

\* The URL the client builds for the cursor of link l can be requested.
Requestable(l) ==
    ~NewRequestFails("GET", ServerBase \o (IF StartsWithBase(l)
                                            THEN SubSeq(l, Len(ServerBase) + 1, Len(l))
                                            ELSE l))

RECURSIVE ConcatData(_)
ConcatData(s) ==
    IF s = << >> THEN << >>
    ELSE s[1].body.data \o ConcatData(Tail(s))

\* s is a chain P1..Pn of pages that can all be fetched and parsed, each but
\* the last with a non-empty "next" link, the last with none.
IsChain(s) ==
    /\ s # << >>
    /\ \A i \in 1..Len(s) :
           /\ IsPageAnswer(s[i])
           /\ i < Len(s) => /\ NextLink(s[i].body.links) # ""
                            /\ Requestable(NextLink(s[i].body.links))
    /\ NextLink(s[Len(s)].body.links) = ""

\* C1: when the server's answers are a chain P1..Pn of pages, each but the
\* last with a non-empty "next" link and the last with none, the collector
\* returns without error exactly the items of P1..Pn in order, after exactly
\* n requests and n-1 delays.
C1_ChainCollected ==
    (pc = "returned" /\ IsChain(script)) =>
        /\ ret.err = NoErr
        /\ ret.value = ConcatData(script)
        /\ Len(Calls) = Len(script)
        /\ Len(wire) = Len(script)
        /\ Len(Sleeps) = Len(script) - 1

\* A call of makeRequest by the collector did not yield a page: the fetch
\* failed or the body did not parse.
CallFailed(e) == e.result.err # NoErr \/ e.result.body.shape # "list"

\* C2: when the fetch or the parse of the k-th requested page fails after
\* k-1 parsed pages, the collector has returned no items and an error that
\* reports page k; the failed call is the last thing it did (no request and
\* no delay after it), and no earlier call failed.
C2_FailureDiscards ==
    /\ \A i \in 1..Len(Calls) : CallFailed(Calls[i]) => i = Len(Calls)
    /\ (Calls # << >> /\ CallFailed(Calls[Len(Calls)])) =>
           /\ pc = "returned"
           /\ ret.value = << >>
           /\ ret.err # NoErr
           /\ ret.err.kind \in {"fetching page", "parsing page"}
           /\ ret.err.page = Len(Calls)
           /\ Len(pages) = Len(Calls) - 1
           /\ IsCall(log[Len(log)])
           /\ Len(Sleeps) = Len(Calls) - 1
    /\ (pc = "returned" /\ ret.err # NoErr) =>
           (Calls # << >> /\ CallFailed(Calls[Len(Calls)]))

\* C2's case: the third page fails after two parsed pages that had items.
C2_Witness ==
    /\ pc = "returned"
    /\ ret.err # NoErr
    /\ ret.err.page = 3
    /\ Len(pages) = 2
    /\ allPrograms # << >>
    /\ ret.value = << >>

\* C3: a step that parses a page decides the collector's next state by the
\* page's "next" link alone: non-empty, the collector goes on to request
\* the cursor derived from it; absent or empty, the collector is done.
C3_NextLinkDecides ==
    [][ (pc = "GetAllProgramsPaginated" /\ Len(pages') = Len(pages) + 1) =>
          LET l == NextLink(pages'[Len(pages')].Links)
          IN  IF l # ""
              THEN /\ pc' = "GetAllProgramsPaginated"
                   /\ nextURL' = extractEndpoint(l)
              ELSE /\ pc' = "returned"
                   /\ ret'.err = NoErr ]_vars

\* C4: no delay precedes the first request, exactly one delay lies between
\* two consecutive requests, and no delay follows the last request of a
\* finished run.
C4_DelayPlacement ==
    /\ log # << >> => IsCall(log[1])
    /\ \A i \in 1..(Len(log) - 1) : IsCall(log[i]) # IsCall(log[i + 1])
    /\ pc = "returned" => IsCall(log[Len(log)])

\* C5: the cursor of a link that starts with the base URL is the link
\* without the base URL, and the URL requested for it is the link itself;
\* the cursor of any other link is the link unchanged, and the URL requested
\* for it is the base URL followed by the whole link.
C5_CursorResolution ==
    /\ \A i \in 1..Len(pages) :
           LET l == NextLink(pages[i].Links)
           IN  (l # "" /\ i < Len(Calls)) =>
                 LET e    == Calls[i + 1].endpoint
                     sent == Calls[i + 1].result.sent
                 IN  IF StartsWithBase(l)
                     THEN /\ ServerBase \o e = l
                          /\ sent # << >> => sent = <<l>>
                     ELSE /\ e = l
                          /\ sent # << >> => sent = <<ServerBase \o l>>
    /\ (pc = "GetAllProgramsPaginated" /\ pages # << >>) =>
           LET l == NextLink(pages[Len(pages)].Links)
           IN  IF StartsWithBase(l) THEN ServerBase \o nextURL = l ELSE nextURL = l

\* C5's case: a link with the base URL and a link without it were followed.
C5_Witness ==
    /\ Len(wire) = 3
    /\ StartsWithBase(NextLink(pages[1].Links))
    /\ wire[2] = NextLink(pages[1].Links)
    /\ ~StartsWithBase(NextLink(pages[2].Links))
    /\ wire[3] = ServerBase \o NextLink(pages[2].Links)

\* C6: the collector returns only at a page without a non-empty "next" link
\* or at a failure.
C6_ReturnsOnlyAtEnd ==
    pc = "returned" =>
        \/ ret.err # NoErr
        \/ pages # << >> /\ NextLink(pages[Len(pages)].Links) = ""

(***************************************************************************)
(* The single-page operations.  Each returns [value, err] and the record   *)
(* of its one makeRequest call.                                            *)
(***************************************************************************)
NilResponse == [nil |-> TRUE]

\* GetStructuredScopes(programHandle)
GetStructuredScopes(c, programHandle, resp) ==
    LET endpoint == "/programs/" \o programHandle \o "/structured_scopes"
        res == makeRequest(c, "GET", endpoint, resp)
        dec == Unmarshal(res.body)
        call == CallEvent(endpoint, resp, res)
    IN  IF res.err # NoErr
        THEN [value |-> NilResponse, err |-> res.err, call |-> call]
        ELSE IF dec.err # NoErr
        THEN [value |-> NilResponse, err |-> dec.err, call |-> call]
        ELSE [value |-> dec.response, err |-> NoErr, call |-> call]

\* GetWeaknesses(programHandle)
GetWeaknesses(c, programHandle, resp) ==
    LET endpoint == "/programs/" \o programHandle \o "/weaknesses"
        res == makeRequest(c, "GET", endpoint, resp)
        dec == Unmarshal(res.body)
        call == CallEvent(endpoint, resp, res)
    IN  IF res.err # NoErr
        THEN [value |-> NilResponse, err |-> res.err, call |-> call]
        ELSE IF dec.err # NoErr
        THEN [value |-> NilResponse, err |-> dec.err, call |-> call]
        ELSE [value |-> dec.response, err |-> NoErr, call |-> call]

\* GetAllPrograms()
GetAllPrograms(c, resp) ==
    LET endpoint == "/programs"
        res == makeRequest(c, "GET", endpoint, resp)
        dec == Unmarshal(res.body)
        call == CallEvent(endpoint, resp, res)
    IN  IF res.err # NoErr
        THEN [value |-> NilResponse, err |-> res.err, call |-> call]
        ELSE IF dec.err # NoErr
        THEN [value |-> NilResponse, err |-> dec.err, call |-> call]
        ELSE [value |-> dec.response, err |-> NoErr, call |-> call]

\* GetProgram(programHandle)
GetProgram(c, programHandle, resp) ==
    LET endpoint == "/programs/" \o programHandle
        res == makeRequest(c, "GET", endpoint, resp)
        dec == UnmarshalOne(res.body)
        call == CallEvent(endpoint, resp, res)
    IN  IF res.err # NoErr
        THEN [value |-> NilResponse, err |-> res.err, call |-> call]
        ELSE IF dec.err # NoErr
        THEN [value |-> NilResponse, err |-> dec.err, call |-> call]
        ELSE [value |-> dec.response, err |-> NoErr, call |-> call]

(***************************************************************************)
(* Printing and saving.                                                    *)
(***************************************************************************)
\* PrintStructuredScopes, PrintWeaknesses, PrintPrograms, PrintProgram: a
\* heading with the number of items, then one numbered entry per item.
Printed(title, items) ==
    << <<title, Len(items)>> >> \o [i \in 1..Len(items) |-> <<i, items[i]>>]

\* json.MarshalIndent(programs, "", "  "): the JSON array of the items
MarshalIndent(programs) ==
    [i \in 1..Len(programs) |-> [json |-> programs[i]]]

(***************************************************************************)
(* main.                                                                   *)
(***************************************************************************)
Handles == {"acme", "%zz"}

CommandLines ==
    { <<"h1module">> }
    \cup { <<"h1module", m>> :
              m \in {"scopes", "weaknesses", "programs", "programs-all",
                     "programs-all-save", "program", "bogus", "Programs-All"} }
    \cup { <<"h1module", m, h>> :
              m \in {"scopes", "weaknesses", "program", "SCOPES"}, h \in Handles }
    \cup { <<"h1module", "programs-all-save", "out.json">>,
           <<"h1module", "programs", "extra">> }

\* username == "" && token == ""
CredentialsMissing_Both(username, token) == username = "" /\ token = ""

\* username == "" || token == ""
CredentialsMissing(username, token) == username = "" \/ token = ""

\* the check of the argument left out of the programs-all-save case
NeedsArgument_HandleOnly(mode) ==
    mode \in {"scopes", "weaknesses", "program"}

\* the cases of the switch that begin with: if len(os.Args) < 3 { log.Fatal }
NeedsArgument(mode) ==
    mode \in {"scopes", "weaknesses", "programs-all-save", "program"}

\* the message of that log.Fatal
MissingArgument(mode) ==
    IF mode = "programs-all-save" THEN "Please provide a filename"
    ELSE "Please provide a program handle"

\* the cases of the switch
Modes == {"scopes", "weaknesses", "programs", "programs-all",
          "programs-all-save", "program"}

\* the programs case calling GetAllProgramsPaginated
ModeCall_ProgramsPaginated(mode) ==
    CASE mode = "scopes"            -> "GetStructuredScopes"
      [] mode = "weaknesses"        -> "GetWeaknesses"
      [] mode = "programs"          -> "GetAllProgramsPaginated"
      [] mode = "programs-all"      -> "GetAllProgramsPaginated"
      [] mode = "programs-all-save" -> "GetAllProgramsPaginated"
      [] mode = "program"           -> "GetProgram"

\* the client method each case of the switch calls
ModeCall(mode) ==
    CASE mode = "scopes"            -> "GetStructuredScopes"
      [] mode = "weaknesses"        -> "GetWeaknesses"
      [] mode = "programs"          -> "GetAllPrograms"
      [] mode = "programs-all"      -> "GetAllProgramsPaginated"
      [] mode = "programs-all-save" -> "GetAllProgramsPaginated"
      [] mode = "program"           -> "GetProgram"

\* mode := os.Args[1]; strings.ToLower(mode)
Mode == ToLower(args[2])

MainInit ==
    /\ env \in [HACKERONE_USERNAME : {"", "user"}, HACKERONE_TOKEN : {"", "token"}]
    /\ args \in CommandLines
    /\ pc = "main"
    /\ client = NoClient
    /\ allPrograms = << >>
    /\ nextURL = ""
    /\ page = 0
    /\ ret = NoRet
    /\ script = << >>
    /\ wire = << >>
    /\ log = << >>
    /\ pages = << >>
    /\ stdout = << >>
    /\ stderr = << >>
    /\ file = NoFile

\* log.Fatal(msg...): print and os.Exit(1)
Fatal(msg) ==
    /\ stderr' = Append(stderr, msg)
    /\ pc' = "fatal"

MainNoCredentials ==
    /\ pc = "main"
    /\ CredentialsMissing(env.HACKERONE_USERNAME, env.HACKERONE_TOKEN)
    /\ Fatal(<<"Please set HACKERONE_USERNAME and HACKERONE_TOKEN environment variables">>)
    /\ UNCHANGED <<env, args, client, allPrograms, nextURL, page, ret, script,
                   wire, log, pages, stdout, file>>

MainUsage ==
    /\ pc = "main"
    /\ ~CredentialsMissing(env.HACKERONE_USERNAME, env.HACKERONE_TOKEN)
    /\ Len(args) < 2
    /\ client' = NewH1Client(env.HACKERONE_USERNAME, env.HACKERONE_TOKEN)
    /\ stdout' = Append(stdout, <<"Usage:">>)
    /\ pc' = "exited"
    /\ UNCHANGED <<env, args, allPrograms, nextURL, page, ret, script,
                   wire, log, pages, stderr, file>>

MainMissingArgument ==
    /\ pc = "main"
    /\ ~CredentialsMissing(env.HACKERONE_USERNAME, env.HACKERONE_TOKEN)
    /\ Len(args) >= 2
    /\ NeedsArgument(Mode)
    /\ Len(args) < 3
    /\ client' = NewH1Client(env.HACKERONE_USERNAME, env.HACKERONE_TOKEN)
    /\ Fatal(<<MissingArgument(Mode)>>)
    /\ UNCHANGED <<env, args, allPrograms, nextURL, page, ret, script,
                   wire, log, pages, stdout, file>>

MainInvalidMode ==
    /\ pc = "main"
    /\ ~CredentialsMissing(env.HACKERONE_USERNAME, env.HACKERONE_TOKEN)
    /\ Len(args) >= 2
    /\ Mode \notin Modes
    /\ client' = NewH1Client(env.HACKERONE_USERNAME, env.HACKERONE_TOKEN)
    /\ Fatal(<<"Invalid mode. Use: scopes, weaknesses, programs, programs-all, programs-all-save, or program">>)
    /\ UNCHANGED <<env, args, allPrograms, nextURL, page, ret, script,
                   wire, log, pages, stdout, file>>

\* main reaches the call of a client method; for GetAllProgramsPaginated the
\* method's locals are initialised (allPrograms nil, nextURL, page).
MainCall ==
    /\ pc = "main"
    /\ ~CredentialsMissing(env.HACKERONE_USERNAME, env.HACKERONE_TOKEN)
    /\ Len(args) >= 2
    /\ Mode \in Modes
    /\ NeedsArgument(Mode) => Len(args) >= 3
    /\ client' = NewH1Client(env.HACKERONE_USERNAME, env.HACKERONE_TOKEN)
    /\ pc' = ModeCall(Mode)
    /\ IF ModeCall(Mode) = "GetAllProgramsPaginated"
       THEN allPrograms' = << >> /\ nextURL' = "/programs" /\ page' = 1
       ELSE UNCHANGED <<allPrograms, nextURL, page>>
    /\ UNCHANGED <<env, args, ret, script, wire, log, pages, stdout, stderr, file>>

\* A single-page operation returned r to main: main ends fatally on an
\* error and prints the items otherwise.
Finish(r, failure, title, items) ==
    /\ ret' = [value |-> r.value, err |-> r.err]
    /\ wire' = wire \o r.call.result.sent
    /\ log' = Append(log, r.call)
    /\ IF r.err # NoErr
       THEN Fatal(<<failure, r.err>>) /\ UNCHANGED stdout
       ELSE stdout' = stdout \o Printed(title, items) /\ pc' = "exited"
            /\ UNCHANGED stderr
    /\ UNCHANGED <<env, args, client, allPrograms, nextURL, page, pages, file>>

MainScopes ==
    \E resp \in Upcoming :
        LET r == GetStructuredScopes(client, args[3], resp)
        IN  /\ pc = "GetStructuredScopes"
            /\ script' = Answered(resp, r.call.result.sent)
            /\ Finish(r, "Error getting structured scopes",
                      "Structured Scopes", r.value.Data)

MainWeaknesses ==
    \E resp \in Upcoming :
        LET r == GetWeaknesses(client, args[3], resp)
        IN  /\ pc = "GetWeaknesses"
            /\ script' = Answered(resp, r.call.result.sent)
            /\ Finish(r, "Error getting weaknesses", "Weaknesses", r.value.Data)

MainPrograms ==
    \E resp \in Upcoming :
        LET r == GetAllPrograms(client, resp)
        IN  /\ pc = "GetAllPrograms"
            /\ script' = Answered(resp, r.call.result.sent)
            /\ Finish(r, "Error getting programs", "All Programs", r.value.Data)

MainProgram ==
    \E resp \in Upcoming :
        LET r == GetProgram(client, args[3], resp)
        IN  /\ pc = "GetProgram"
            /\ script' = Answered(resp, r.call.result.sent)
            /\ Finish(r, "Error getting program", "Program Details", r.value.Data)

\* GetAllProgramsPaginated returned an error to main (either paginated mode)
MainAllFailed ==
    /\ pc = "returned"
    /\ ret.err # NoErr
    /\ Fatal(<<"Error getting all programs", ret.err>>)
    /\ UNCHANGED <<env, args, client, allPrograms, nextURL, page, ret, script,
                   wire, log, pages, stdout, file>>

\* programs-all: PrintPrograms(programs)
MainAllPrinted ==
    /\ pc = "returned"
    /\ ret.err = NoErr
    /\ Mode = "programs-all"
    /\ stdout' = stdout \o Printed("All Programs", ret.value)
    /\ pc' = "exited"
    /\ UNCHANGED <<env, args, client, allPrograms, nextURL, page, ret, script,
                   wire, log, pages, stderr, file>>

\* programs-all-save: SaveProgramsToFile(programs, filename), the file written
MainAllSaved ==
    /\ pc = "returned"
    /\ ret.err = NoErr
    /\ Mode = "programs-all-save"
    /\ file' = [name |-> args[3], content |-> MarshalIndent(ret.value)]
    /\ stdout' = Append(stdout, <<"Successfully saved", Len(ret.value), args[3]>>)
    /\ pc' = "exited"
    /\ UNCHANGED <<env, args, client, allPrograms, nextURL, page, ret, script,
                   wire, log, pages, stderr>>

\* programs-all-save: ioutil.WriteFile fails
MainSaveFailed ==
    /\ pc = "returned"
    /\ ret.err = NoErr
    /\ Mode = "programs-all-save"
    /\ Fatal(<<"Error saving to file", [kind |-> "write"]>>)
    /\ UNCHANGED <<env, args, client, allPrograms, nextURL, page, ret, script,
                   wire, log, pages, stdout, file>>

Next ==
    \/ MainNoCredentials
    \/ MainUsage
    \/ MainMissingArgument
    \/ MainInvalidMode
    \/ MainCall
    \/ MainScopes
    \/ MainWeaknesses
    \/ MainPrograms
    \/ MainProgram
    \/ PageFetchFails
    \/ PageParseFails
    \/ PageWithNext
    \/ PageLast
    \/ MainAllFailed
    \/ MainAllPrinted
    \/ MainAllSaved
    \/ MainSaveFailed

Spec == MainInit /\ [][Next]_vars

(***************************************************************************)
(* Properties of the command line program (checked under Spec).            *)
(***************************************************************************)
CredentialsSet == env.HACKERONE_USERNAME # "" /\ env.HACKERONE_TOKEN # ""

\* The command line is bare (no subcommand) or a usage error: an unknown
\* subcommand, or a subcommand without its required argument.
UsageError ==
    \/ Len(args) < 2
    \/ ToLower(args[2]) \notin {"scopes", "weaknesses", "programs", "programs-all",
                                "programs-all-save", "program"}
    \/ /\ ToLower(args[2]) \in {"scopes", "weaknesses", "program", "programs-all-save"}
       /\ Len(args) < 3

\* How main ends on a bare command line or a usage error.
UsageOutcome ==
    IF Len(args) < 2
    THEN /\ pc = "exited"
         /\ stdout = << <<"Usage:">> >>
         /\ stderr = << >>
    ELSE /\ pc = "fatal"
         /\ stdout = << >>
         /\ \/ stderr = << <<"Please provide a program handle">> >>
            \/ stderr = << <<"Please provide a filename">> >>
            \/ stderr = << <<"Invalid mode. Use: scopes, weaknesses, programs, programs-all, programs-all-save, or program">> >>

\* C7 as stated: on a bare command line or a usage error no request is ever
\* made, and the process ends printing the usage (bare) or with a fatal usage
\* error (otherwise).
C7_UsageNoRequest ==
    UsageError =>
        /\ wire = << >>
        /\ Calls = << >>
        /\ pc # "main" => UsageOutcome

\* C7 amended: on a bare command line or a usage error no request is ever
\* made; when both credentials are set the process ends printing the usage
\* (bare) or with a fatal usage error (otherwise).
C7_UsageNoRequestWithCredentials ==
    UsageError =>
        /\ wire = << >>
        /\ Calls = << >>
        /\ (pc # "main" /\ CredentialsSet) => UsageOutcome

\* C7's case: programs-all-save without a filename ended fatally.
C7_Witness ==
    /\ CredentialsSet
    /\ args = <<"h1module", "programs-all-save">>
    /\ pc = "fatal"
    /\ stderr = << <<"Please provide a filename">> >>

\* C8: with a credential missing or empty the process makes no request and
\* constructs no client, whatever the command line; it ends with the fatal
\* configuration error and nothing else printed.
C8_NoCredentialsFatal ==
    (env.HACKERONE_USERNAME = "" \/ env.HACKERONE_TOKEN = "") =>
        /\ wire = << >>
        /\ Calls = << >>
        /\ client = NoClient
        /\ pc \in {"main", "fatal"}
        /\ pc = "fatal" =>
              /\ stdout = << >>
              /\ stderr = << <<"Please set HACKERONE_USERNAME and HACKERONE_TOKEN environment variables">> >>

\* C8's case: only the token is missing and the command would fetch.
C8_Witness ==
    /\ env.HACKERONE_USERNAME = "user"
    /\ env.HACKERONE_TOKEN = ""
    /\ args = <<"h1module", "programs">>
    /\ pc = "fatal"

\* C9: every call of makeRequest sends at most one request, to the base URL
\* followed by the endpoint; it returns the body exactly when the request
\* was sent, answered with status 200 and read in full, and an error and no
\* bytes otherwise (a status error carries the status); no request is sent
\* outside these calls, and the client's configuration stays as constructed.
C9_SingleAttempt ==
    /\ \A i \in 1..Len(Calls) :
           LET e == Calls[i]
               r == e.result
               ok == /\ Len(r.sent) = 1
                     /\ e.answer[1].transportOK
                     /\ e.answer[1].status = 200
                     /\ e.answer[1].readOK
           IN  /\ Len(r.sent) <= 1
               /\ Len(e.answer) = Len(r.sent)
               /\ Len(r.sent) = 1 => r.sent[1] = ServerBase \o e.endpoint
               /\ (r.err = NoErr) <=> ok
               /\ ok => r.body = e.answer[1].body
               /\ ~ok => r.body = NilBytes
               /\ (Len(r.sent) = 1 /\ e.answer[1].transportOK
                      /\ e.answer[1].status # 200) =>
                     r.err = [kind |-> "status", status |-> e.answer[1].status]
    /\ Len(wire) <= Len(Calls)
    /\ client # NoClient =>
           client = [ Username       |-> env.HACKERONE_USERNAME,
                      APIToken       |-> env.HACKERONE_TOKEN,
                      BaseURL        |-> ServerBase,
                      RateLimitDelay |-> 100 ]

\* C9's case: a call that returned a body, then a call answered 404.
C9_Witness ==
    /\ Len(Calls) = 2
    /\ Calls[1].result.err = NoErr
    /\ Calls[1].result.body # NilBytes
    /\ Calls[2].result.err = [kind |-> "status", status |-> 404]
    /\ Calls[2].result.body = NilBytes
    /\ Len(wire) = 2

\* C10: scopes, weaknesses and programs call makeRequest exactly once, send
\* at most one request and never sleep; what they print is the first
\* page's items even when that page has a non-empty "next" link.  Only
\* programs-all and programs-all-save make a second call.
C10_SinglePageModes ==
    /\ (Len(args) >= 2 /\ ToLower(args[2]) \in {"scopes", "weaknesses", "programs"}) =>
           /\ Len(Calls) <= 1
           /\ Len(wire) <= 1
           /\ Sleeps = << >>
           /\ pages = << >>
           /\ (pc \in {"exited", "fatal"} /\ CredentialsSet /\ ~UsageError) =>
                  Len(Calls) = 1
           /\ pc = "exited" =>
                  LET data == Calls[1].answer[1].body.data
                  IN  /\ ret.err = NoErr
                      /\ ret.value.Data = data
                      /\ Len(stdout) = 1 + Len(data)
                      /\ \A i \in 1..Len(data) : stdout[i + 1] = <<i, data[i]>>
    /\ Len(Calls) > 1 =>
           ToLower(args[2]) \in {"programs-all", "programs-all-save"}

\* C10's case: programs got a first page with a "next" link and ended
\* after its one request.
C10_Witness ==
    /\ args = <<"h1module", "programs">>
    /\ pc = "exited"
    /\ NextLink(ret.value.Links) = ServerBase \o "/programs?page=2"
    /\ ret.value.Data = <<"p2", "p1">>
    /\ Len(Calls) = 1
    /\ Len(wire) = 1
====
